---- MODULE Spec2Model ----
(***************************************************************************)
(* Model of `run` in aegea/ecs.py: provision the prerequisites of a        *)
(* Fargate task, submit the task, poll it until it has stopped and read    *)
(* its log stream.                                                         *)
(*                                                                         *)
(* A string is a sequence of tokens; the tokens ":" and "/" are the        *)
(* delimiters that str.split and str.join of the source work on, every     *)
(* other token is a run of characters holding neither of them.             *)
(***************************************************************************)
EXTENDS Integers, Sequences, FiniteSets, TLC

\* ---------------------------------------------------------------- bounds
\* describe_tasks calls of one invocation while the task has not stopped
MaxPolls == 3
\* invocations of run against the same account
MaxRuns == 2

\* ------------------------------------------------------- string helpers
Last(s) == s[Len(s)]

Count(s, x) == Cardinality({i \in 1..Len(s) : s[i] = x})

\* sep.join(parts)
RECURSIVE Join(_, _)
Join(parts, sep) ==
    IF parts = <<>> THEN <<>>
    ELSE IF Len(parts) = 1 THEN parts[1]
    ELSE parts[1] \o <<sep>> \o Join(Tail(parts), sep)

\* s.split(sep, maxsplit): at most maxsplit cuts, the rest is left whole
RECURSIVE SplitAcc(_, _, _, _)
SplitAcc(s, sep, maxsplit, cur) ==
    IF s = <<>> THEN <<cur>>
    ELSE IF s[1] = sep /\ maxsplit > 0
         THEN <<cur>> \o SplitAcc(Tail(s), sep, maxsplit - 1, <<>>)
         ELSE SplitAcc(Tail(s), sep, maxsplit, cur \o <<s[1]>>)

SplitMax(s, sep, maxsplit) == SplitAcc(s, sep, maxsplit, <<>>)

\* s.split(sep)
Split(s, sep) == SplitAcc(s, sep, Len(s), <<>>)

\* ARN(arn).resource: the sixth field of arn.split(":", 5)
ARNResource(arn) == SplitMax(arn, ":", 5)[6]

\* ARN(task_arn).resource.split("/")[1]   (Python indexes from 0)
TaskUuid(arn) == Split(ARNResource(arn), "/")[2]

\* "/".join([args.task_name, args.task_name, task_uuid])
LogStreamName(task_name, uuid) == Join(<<task_name, task_name, uuid>>, "/")

\* --------------------------------------------------------- the provider
Statuses == {"PENDING", "RUNNING", "STOPPED"}

\* lastStatus moves forward only: PENDING, RUNNING, STOPPED
Later(s) ==
    IF s = "PENDING" THEN {"RUNNING", "STOPPED"}
    ELSE IF s = "RUNNING" THEN {"STOPPED"} ELSE {}

TaskIds == {<<"abc123">>, <<"abcdef0123456789">>}

ClusterNames == {<<"aegea_ecs">>, <<"cluster-name">>}

TaskNames == {<<"aegea_ecs">>, <<"mytask">>}

ModuleName == <<"aegea.ecs">>

\* arn:partition:service:region:account:task/cluster-name/instance-id
TaskArn(cluster, id) ==
    Join(<<<<"arn">>, <<"aws">>, <<"ecs">>, <<"region">>, <<"account">>,
           Join(<<<<"task">>, cluster, id>>, "/")>>, ":")

\* the stream the awslogs driver of a container writes to
AwslogsStream(defn, id) ==
    Join(<<defn.logConfiguration.options["awslogs-stream-prefix"],
           defn.name, id>>, "/")

TheVpc == [id |-> <<"vpc-1">>, subnets |-> {<<"subnet-a">>, <<"subnet-b">>}]

SecurityGroupId(name) == <<"sg-">> \o name

RoleArn(name) == <<"role">> \o <<"/">> \o name

NoRes == [taskArn |-> <<>>, lastStatus |-> "none"]

NoTask == [taskArn |-> <<>>, id |-> <<>>, cluster |-> <<>>, revision |-> 0,
           lastStatus |-> "none", logGroup |-> <<>>, logStream |-> <<>>]

NoVpc == [id |-> <<>>, subnets |-> {}]

NoRole == [name |-> <<>>, arn |-> <<>>]

NoNetwork == [subnets |-> {}, securityGroups |-> <<>>, assignPublicIp |-> "none"]

NoReq == [cluster |-> <<>>, taskDefinition |-> <<>>, launchType |-> "none",
          networkConfiguration |-> NoNetwork]

LogOptions(region, group, prefix) ==
    [k \in {"awslogs-region", "awslogs-group", "awslogs-stream-prefix"} |->
        IF k = "awslogs-region" THEN region
        ELSE IF k = "awslogs-group" THEN group ELSE prefix]

NoConfig == [logDriver |-> "none", options |-> LogOptions(<<>>, <<>>, <<>>)]

NoDefn == [name |-> <<>>, logConfiguration |-> NoConfig]

NoRead == [log_group_name |-> <<>>, stream |-> <<>>]

VARIABLES
    args,            \* the parsed command line of run
    pc,              \* the line run is at
    error,           \* the call whose exception left run, or "none"
    calls,           \* external calls of this invocation, in order
    vpc, log_config, container_defn, exec_role, task_role, network_config,
    res, task_arn, task_uuid,
    printed,         \* progress lines of the wait loop
    output,          \* log messages printed after the loop
    observed,        \* lastStatus of every response of this invocation
    runTaskReq,      \* the arguments of run_task
    readReq,         \* the arguments of CloudwatchLogReader
    runs,            \* invocations so far
    registered,      \* invocations that got past register_task_definition
    vpcs, clusters, logGroups, roles, securityGroups, taskDefs,  \* account
    task             \* the task of the latest run_task

local == <<pc, error, calls, vpc, log_config, container_defn, exec_role, task_role,
           network_config, res, task_arn, task_uuid, printed, output,
           observed, runTaskReq, readReq>>

account == <<vpcs, clusters, logGroups, roles, securityGroups, taskDefs, task>>

vars == <<args, local, runs, registered, account>>

\* ------------------------------------------------------------ the state
LocalInit ==
    /\ pc = "ensure_vpc"
    /\ error = "none"
    /\ calls = <<>>
    /\ vpc = NoVpc
    /\ log_config = NoConfig
    /\ container_defn = NoDefn
    /\ exec_role = NoRole
    /\ task_role = NoRole
    /\ network_config = NoNetwork
    /\ res = NoRes
    /\ task_arn = <<>>
    /\ task_uuid = <<>>
    /\ printed = <<>>
    /\ output = <<>>
    /\ observed = <<>>
    /\ runTaskReq = NoReq
    /\ readReq = NoRead

Init ==
    /\ args \in [cluster : ClusterNames, task_name : TaskNames,
                 execution_role : {ModuleName}, task_role : {ModuleName},
                 security_group : {ModuleName}]
    /\ LocalInit
    /\ runs = 1
    /\ registered = 0
    /\ vpcs = {}
    /\ clusters = {}
    /\ logGroups = {}
    /\ roles = {}
    /\ securityGroups = {}
    /\ taskDefs = <<>>
    /\ task = NoTask

\* an exception raised by a call leaves run: nothing after the call runs
Raise(op) ==
    /\ pc' = "aborted"
    /\ error' = op
    /\ calls' = Append(calls, op)

Called(op, next) ==
    /\ pc' = next
    /\ calls' = Append(calls, op)
    /\ UNCHANGED error

\* line 64: vpc = ensure_vpc()
EnsureVpc ==
    /\ pc = "ensure_vpc"
    /\ \E ok \in BOOLEAN :
          IF ok
          THEN /\ Called("ensure_vpc", "create_cluster")
               /\ vpcs' = vpcs \cup {TheVpc.id}
               /\ vpc' = TheVpc
          ELSE /\ Raise("ensure_vpc")
               /\ UNCHANGED <<vpcs, vpc>>
    /\ UNCHANGED <<args, log_config, container_defn, exec_role, task_role,
                   network_config, res, task_arn, task_uuid, printed, output,
                   observed, runTaskReq, readReq, runs, registered,
                   clusters, logGroups, roles, securityGroups, taskDefs, task>>

\* variant: the log group is not ensured before the roles and the task
CreateCluster_SkipLogGroup ==
    /\ pc = "create_cluster"
    /\ \E ok \in BOOLEAN :
          IF ok
          THEN /\ Called("create_cluster", "ensure_exec_role")
               /\ clusters' = clusters \cup {args.cluster}
          ELSE /\ Raise("create_cluster")
               /\ UNCHANGED clusters
    /\ UNCHANGED <<args, vpc, log_config, container_defn, exec_role, task_role,
                   network_config, res, task_arn, task_uuid, printed, output,
                   observed, runTaskReq, readReq, runs, registered,
                   vpcs, logGroups, roles, securityGroups, taskDefs, task>>

\* line 65: clients.ecs.create_cluster(clusterName=args.cluster)
CreateCluster ==
    /\ pc = "create_cluster"
    /\ \E ok \in BOOLEAN :
          IF ok
          THEN /\ Called("create_cluster", "ensure_log_group")
               /\ clusters' = clusters \cup {args.cluster}
          ELSE /\ Raise("create_cluster")
               /\ UNCHANGED clusters
    /\ UNCHANGED <<args, vpc, log_config, container_defn, exec_role, task_role,
                   network_config, res, task_arn, task_uuid, printed, output,
                   observed, runTaskReq, readReq, runs, registered,
                   vpcs, logGroups, roles, securityGroups, taskDefs, task>>

\* lines 66-74: log_config = {...}; ensure_log_group(awslogs-group)
EnsureLogGroup ==
    /\ pc = "ensure_log_group"
    /\ log_config' = [logDriver |-> "awslogs",
                      options |-> LogOptions(<<"region">>, args.task_name,
                                             args.task_name)]
    /\ \E ok \in BOOLEAN :
          IF ok
          THEN /\ Called("ensure_log_group", "ensure_exec_role")
               /\ logGroups' = logGroups \cup
                                 {log_config'.options["awslogs-group"]}
          ELSE /\ Raise("ensure_log_group")
               /\ UNCHANGED logGroups
    /\ UNCHANGED <<args, vpc, container_defn, exec_role, task_role,
                   network_config, res, task_arn, task_uuid, printed, output,
                   observed, runTaskReq, readReq, runs, registered,
                   vpcs, clusters, roles, securityGroups, taskDefs, task>>

\* lines 75-80: container_defn = dict(...); exec_role = ensure_iam_role(...)
EnsureExecRole ==
    /\ pc = "ensure_exec_role"
    /\ container_defn' = [name |-> args.task_name,
                          logConfiguration |-> log_config]
    /\ \E ok \in BOOLEAN :
          IF ok
          THEN /\ Called("ensure_exec_role", "ensure_task_role")
               /\ roles' = roles \cup {args.execution_role}
               /\ exec_role' = [name |-> args.execution_role,
                                arn |-> RoleArn(args.execution_role)]
          ELSE /\ Raise("ensure_exec_role")
               /\ UNCHANGED <<roles, exec_role>>
    /\ UNCHANGED <<args, vpc, log_config, task_role,
                   network_config, res, task_arn, task_uuid, printed, output,
                   observed, runTaskReq, readReq, runs, registered,
                   vpcs, clusters, logGroups, securityGroups, taskDefs, task>>

\* variant: the exception of ensure_iam_role is caught and run goes on
EnsureTaskRole_Swallow ==
    /\ pc = "ensure_task_role"
    /\ \E ok \in BOOLEAN :
          IF ok
          THEN /\ Called("ensure_task_role", "register_task_definition")
               /\ roles' = roles \cup {args.task_role}
               /\ task_role' = [name |-> args.task_role,
                                arn |-> RoleArn(args.task_role)]
          ELSE /\ pc' = "register_task_definition"
               /\ error' = "ensure_task_role"
               /\ calls' = Append(calls, "ensure_task_role")
               /\ UNCHANGED <<roles, task_role>>
    /\ UNCHANGED <<args, vpc, log_config, container_defn, exec_role,
                   network_config, res, task_arn, task_uuid, printed, output,
                   observed, runTaskReq, readReq, runs, registered,
                   vpcs, clusters, logGroups, securityGroups, taskDefs, task>>

\* line 81: task_role = ensure_iam_role(args.task_role)
EnsureTaskRole ==
    /\ pc = "ensure_task_role"
    /\ \E ok \in BOOLEAN :
          IF ok
          THEN /\ Called("ensure_task_role", "register_task_definition")
               /\ roles' = roles \cup {args.task_role}
               /\ task_role' = [name |-> args.task_role,
                                arn |-> RoleArn(args.task_role)]
          ELSE /\ Raise("ensure_task_role")
               /\ UNCHANGED <<roles, task_role>>
    /\ UNCHANGED <<args, vpc, log_config, container_defn, exec_role,
                   network_config, res, task_arn, task_uuid, printed, output,
                   observed, runTaskReq, readReq, runs, registered,
                   vpcs, clusters, logGroups, securityGroups, taskDefs, task>>

\* the revision the provider gives the next registration of a family
NextRevision(family) ==
    Cardinality({i \in 1..Len(taskDefs) : taskDefs[i].family = family}) + 1

\* variant: a family that has a revision is reused, not registered again
RegisterTaskDefinition_Reuse ==
    /\ pc = "register_task_definition"
    /\ \E ok \in BOOLEAN :
          IF ok
          THEN /\ Called("register_task_definition", "ensure_security_group")
               /\ taskDefs' =
                     IF NextRevision(args.task_name) > 1 THEN taskDefs
                     ELSE Append(taskDefs,
                     [family |-> args.task_name,
                      revision |-> NextRevision(args.task_name),
                      containerDefinitions |-> <<container_defn>>,
                      requiresCompatibilities |-> <<"FARGATE">>,
                      executionRoleArn |-> exec_role.arn,
                      taskRoleArn |-> task_role.arn,
                      networkMode |-> "awsvpc"])
               /\ registered' = registered + 1
          ELSE /\ Raise("register_task_definition")
               /\ UNCHANGED <<taskDefs, registered>>
    /\ UNCHANGED <<args, vpc, log_config, container_defn, exec_role, task_role,
                   network_config, res, task_arn, task_uuid, printed, output,
                   observed, runTaskReq, readReq, runs,
                   vpcs, clusters, logGroups, roles, securityGroups, task>>

\* lines 82-89: clients.ecs.register_task_definition(family=args.task_name, ...)
RegisterTaskDefinition ==
    /\ pc = "register_task_definition"
    /\ \E ok \in BOOLEAN :
          IF ok
          THEN /\ Called("register_task_definition", "ensure_security_group")
               /\ taskDefs' = Append(taskDefs,
                     [family |-> args.task_name,
                      revision |-> NextRevision(args.task_name),
                      containerDefinitions |-> <<container_defn>>,
                      requiresCompatibilities |-> <<"FARGATE">>,
                      executionRoleArn |-> exec_role.arn,
                      taskRoleArn |-> task_role.arn,
                      networkMode |-> "awsvpc"])
               /\ registered' = registered + 1
          ELSE /\ Raise("register_task_definition")
               /\ UNCHANGED <<taskDefs, registered>>
    /\ UNCHANGED <<args, vpc, log_config, container_defn, exec_role, task_role,
                   network_config, res, task_arn, task_uuid, printed, output,
                   observed, runTaskReq, readReq, runs,
                   vpcs, clusters, logGroups, roles, securityGroups, task>>

\* lines 90-98: network_config = {...ensure_security_group(...).id...}
EnsureSecurityGroup ==
    /\ pc = "ensure_security_group"
    /\ \E ok \in BOOLEAN :
          IF ok
          THEN /\ Called("ensure_security_group", "run_task")
               /\ securityGroups' = securityGroups \cup {args.security_group}
               /\ network_config' =
                     [subnets |-> vpc.subnets,
                      securityGroups |-> <<SecurityGroupId(args.security_group)>>,
                      assignPublicIp |-> "ENABLED"]
          ELSE /\ Raise("ensure_security_group")
               /\ UNCHANGED <<securityGroups, network_config>>
    /\ UNCHANGED <<args, vpc, log_config, container_defn, exec_role, task_role,
                   res, task_arn, task_uuid, printed, output,
                   observed, runTaskReq, readReq, runs, registered,
                   vpcs, clusters, logGroups, roles, taskDefs, task>>

\* the newest registered revision of a family
Latest(family) ==
    CHOOSE d \in {taskDefs[i] : i \in 1..Len(taskDefs)} :
        d.family = family /\ d.revision = NextRevision(family) - 1

\* the task the provider starts for a run_task request
StartedTask(req, id, status) ==
    LET defn == Latest(req.taskDefinition).containerDefinitions[1] IN
    [taskArn |-> TaskArn(req.cluster, id),
     id |-> id,
     cluster |-> req.cluster,
     revision |-> Latest(req.taskDefinition).revision,
     lastStatus |-> status,
     logGroup |-> defn.logConfiguration.options["awslogs-group"],
     logStream |-> AwslogsStream(defn, id)]

\* variant: a failed submission is submitted again
RunTask_Retry ==
    /\ pc = "run_task"
    /\ runTaskReq' = [cluster |-> args.cluster,
                      taskDefinition |-> args.task_name,
                      launchType |-> "FARGATE",
                      networkConfiguration |-> network_config]
    /\ \E ok \in BOOLEAN :
          IF ok
          THEN /\ Called("run_task", "while")
               /\ \E id \in TaskIds, status \in Statuses :
                     task' = StartedTask(runTaskReq', id, status)
               /\ res' = [taskArn |-> task'.taskArn,
                          lastStatus |-> task'.lastStatus]
               /\ task_arn' = res'.taskArn
               /\ task_uuid' = TaskUuid(task_arn')
               /\ observed' = Append(observed, res'.lastStatus)
          ELSE /\ Count(calls, "run_task") < 2
               /\ calls' = Append(calls, "run_task")
               /\ UNCHANGED <<pc, error, task, res, task_arn, task_uuid,
                              observed>>
    /\ UNCHANGED <<args, vpc, log_config, container_defn, exec_role, task_role,
                   network_config, printed, output, readReq, runs, registered,
                   vpcs, clusters, logGroups, roles, securityGroups, taskDefs>>

\* lines 99-104: res = clients.ecs.run_task(...); task_arn; task_uuid
RunTask ==
    /\ pc = "run_task"
    /\ runTaskReq' = [cluster |-> args.cluster,
                      taskDefinition |-> args.task_name,
                      launchType |-> "FARGATE",
                      networkConfiguration |-> network_config]
    /\ \E ok \in BOOLEAN :
          IF ok
          THEN /\ Called("run_task", "while")
               /\ \E id \in TaskIds, status \in Statuses :
                     task' = StartedTask(runTaskReq', id, status)
               /\ res' = [taskArn |-> task'.taskArn,
                          lastStatus |-> task'.lastStatus]
               /\ task_arn' = res'.taskArn
               /\ task_uuid' = TaskUuid(task_arn')
               /\ observed' = Append(observed, res'.lastStatus)
          ELSE /\ Raise("run_task")
               /\ UNCHANGED <<task, res, task_arn, task_uuid, observed>>
    /\ UNCHANGED <<args, vpc, log_config, container_defn, exec_role, task_role,
                   network_config, printed, output, readReq, runs, registered,
                   vpcs, clusters, logGroups, roles, securityGroups, taskDefs>>

\* variant: the loop gives up after two polls
WhileTest_Limit ==
    /\ pc = "while"
    /\ pc' = IF res.lastStatus # "STOPPED" /\ Count(calls, "describe_tasks") < 2
             THEN "print" ELSE "read_logs"
    /\ UNCHANGED <<args, error, calls, vpc, log_config, container_defn,
                   exec_role, task_role, network_config, res, task_arn,
                   task_uuid, printed, output, observed, runTaskReq, readReq,
                   runs, registered, account>>

\* variant: the test is made at the end of the body (do ... while)
WhileTest_DoWhile ==
    /\ pc = "while"
    /\ pc' = IF res.lastStatus # "STOPPED" \/ printed = <<>>
             THEN "print" ELSE "read_logs"
    /\ UNCHANGED <<args, error, calls, vpc, log_config, container_defn,
                   exec_role, task_role, network_config, res, task_arn,
                   task_uuid, printed, output, observed, runTaskReq, readReq,
                   runs, registered, account>>

\* line 106: while res["tasks"][0]["lastStatus"] != "STOPPED"
WhileTest ==
    /\ pc = "while"
    /\ pc' = IF res.lastStatus # "STOPPED" THEN "print" ELSE "read_logs"
    /\ UNCHANGED <<args, error, calls, vpc, log_config, container_defn,
                   exec_role, task_role, network_config, res, task_arn,
                   task_uuid, printed, output, observed, runTaskReq, readReq,
                   runs, registered, account>>

\* variant: a status is printed only when it differs from the line before
PrintStatus_Dedup ==
    /\ pc = "print"
    /\ printed' = IF printed # <<>> /\ Last(printed)[2] = res.lastStatus
                  THEN printed
                  ELSE Append(printed, <<task_arn, res.lastStatus>>)
    /\ pc' = "describe_tasks"
    /\ UNCHANGED <<args, error, calls, vpc, log_config, container_defn,
                   exec_role, task_role, network_config, res, task_arn,
                   task_uuid, output, observed, runTaskReq, readReq,
                   runs, registered, account>>

\* lines 107-108: print(task_arn, lastStatus); time.sleep(1)
PrintStatus ==
    /\ pc = "print"
    /\ printed' = Append(printed, <<task_arn, res.lastStatus>>)
    /\ pc' = "describe_tasks"
    /\ UNCHANGED <<args, error, calls, vpc, log_config, container_defn,
                   exec_role, task_role, network_config, res, task_arn,
                   task_uuid, output, observed, runTaskReq, readReq,
                   runs, registered, account>>

\* variant: a failed describe_tasks is tried again
DescribeTasks_Retry ==
    /\ pc = "describe_tasks"
    /\ Count(calls, "describe_tasks") < MaxPolls \/ task.lastStatus = "STOPPED"
    /\ \E ok \in BOOLEAN :
          IF ok
          THEN /\ Called("describe_tasks", "while")
               /\ res' = [taskArn |-> task.taskArn,
                          lastStatus |-> task.lastStatus]
               /\ observed' = Append(observed, res'.lastStatus)
          ELSE /\ Count(calls, "describe_tasks") < MaxPolls
               /\ error' = "describe_tasks"
               /\ calls' = Append(calls, "describe_tasks")
               /\ UNCHANGED <<pc, res, observed>>
    /\ UNCHANGED <<args, vpc, log_config, container_defn, exec_role, task_role,
                   network_config, task_arn, task_uuid, printed, output,
                   runTaskReq, readReq, runs, registered, account>>

\* line 109: res = clients.ecs.describe_tasks(cluster=..., tasks=[task_arn])
DescribeTasks ==
    /\ pc = "describe_tasks"
    /\ Count(calls, "describe_tasks") < MaxPolls \/ task.lastStatus = "STOPPED"
    /\ \E ok \in BOOLEAN :
          IF ok
          THEN /\ Called("describe_tasks", "while")
               /\ res' = [taskArn |-> task.taskArn,
                          lastStatus |-> task.lastStatus]
               /\ observed' = Append(observed, res'.lastStatus)
          ELSE /\ Raise("describe_tasks")
               /\ UNCHANGED <<res, observed>>
    /\ UNCHANGED <<args, vpc, log_config, container_defn, exec_role, task_role,
                   network_config, task_arn, task_uuid, printed, output,
                   runTaskReq, readReq, runs, registered, account>>

\* the records a log stream holds: what the task's container wrote
LogEvents(group, stream) ==
    IF group = task.logGroup /\ stream = task.logStream
    THEN <<[message |-> "hi"]>> ELSE <<>>

\* the messages of a sequence of log records, in order
Messages(events) == [i \in 1..Len(events) |-> events[i].message]

\* lines 111-113: for event in CloudwatchLogReader(...): print(message)
ReadLogs ==
    /\ pc = "read_logs"
    /\ readReq' = [log_group_name |-> args.task_name,
                   stream |-> LogStreamName(args.task_name, task_uuid)]
    /\ \E ok \in BOOLEAN :
          IF ok
          THEN /\ Called("read_log_stream", "done")
               /\ output' = Messages(LogEvents(readReq'.log_group_name,
                                               readReq'.stream))
          ELSE /\ Raise("read_log_stream")
               /\ UNCHANGED output
    /\ UNCHANGED <<args, vpc, log_config, container_defn, exec_role, task_role,
                   network_config, res, task_arn, task_uuid, printed,
                   observed, runTaskReq, runs, registered, account>>

\* the provider moves the task towards STOPPED
TaskAdvance ==
    /\ \E s \in Later(task.lastStatus) :
          task' = [task EXCEPT !.lastStatus = s]
    /\ UNCHANGED <<args, local, runs, registered, vpcs, clusters, logGroups,
                   roles, securityGroups, taskDefs>>

\* run is invoked again with the same arguments against the same account
Invoke ==
    /\ pc \in {"done", "aborted"}
    /\ runs < MaxRuns
    /\ runs' = runs + 1
    /\ pc' = "ensure_vpc"
    /\ error' = "none"
    /\ calls' = <<>>
    /\ vpc' = NoVpc
    /\ log_config' = NoConfig
    /\ container_defn' = NoDefn
    /\ exec_role' = NoRole
    /\ task_role' = NoRole
    /\ network_config' = NoNetwork
    /\ res' = NoRes
    /\ task_arn' = <<>>
    /\ task_uuid' = <<>>
    /\ printed' = <<>>
    /\ output' = <<>>
    /\ observed' = <<>>
    /\ runTaskReq' = NoReq
    /\ readReq' = NoRead
    /\ UNCHANGED <<args, registered, account>>

RunStep ==
    \/ EnsureVpc
    \/ CreateCluster
    \/ EnsureLogGroup
    \/ EnsureExecRole
    \/ EnsureTaskRole
    \/ RegisterTaskDefinition
    \/ EnsureSecurityGroup
    \/ RunTask
    \/ WhileTest
    \/ PrintStatus
    \/ DescribeTasks
    \/ ReadLogs

Next ==
    \/ RunStep
    \/ TaskAdvance
    \/ Invoke

Spec == Init /\ [][Next]_vars

\* the interpreter runs the next statement of run; the provider is not
\* obliged to ever stop the task
FairSpec == Spec /\ WF_vars(RunStep)

\* ----------------------------------------------------------- properties
\* the calls of one invocation up to the submission, in source order
Order == <<"ensure_vpc", "create_cluster", "ensure_log_group",
           "ensure_exec_role", "ensure_task_role",
           "register_task_definition", "ensure_security_group", "run_task">>

ProvisioningOps == {Order[i] : i \in 1..7}

Polls == Count(calls, "describe_tasks")

LoopLeft == pc \in {"read_logs", "done"}

InLoop == pc \in {"while", "print", "describe_tasks"}

NotStopped(s) == s # "STOPPED"

\* C1 as stated: every invocation that leaves the wait loop has printed a
\* progress line for the initial status run_task returned, whatever that
\* status is, and no status is observed after STOPPED.
C1_Original ==
    /\ LoopLeft => /\ Len(printed) >= 1
                   /\ printed[1] = <<task_arn, observed[1]>>
    /\ \A i \in 1..(Len(observed) - 1) : observed[i] # "STOPPED"

\* C1 amended: the i-th iteration of the wait loop prints exactly one line,
\* the task ARN with the i-th status observed; the initial status of run_task
\* has a line exactly when it is not STOPPED; every status observed before the
\* last has a line; the loop is left in the iteration that observes STOPPED,
\* so no status is observed after STOPPED.
C1_Theorem ==
    /\ Len(printed) <= Len(observed)
    /\ \A i \in 1..Len(printed) : printed[i] = <<task_arn, observed[i]>>
    /\ \A i \in 1..(Len(observed) - 1) :
          /\ observed[i] # "STOPPED"
          /\ Len(printed) >= i
    /\ (observed # <<>> /\ observed[1] = "STOPPED") => printed = <<>>
    /\ (observed # <<>> /\ observed[1] # "STOPPED" /\ pc \notin {"while", "print"})
          => Len(printed) >= 1
    /\ pc \in {"print", "describe_tasks"} => Last(observed) # "STOPPED"
    /\ LoopLeft => /\ Last(observed) = "STOPPED"
                   /\ Len(printed) = Len(observed) - 1

C1_Witness ==
    /\ pc = "read_logs"
    /\ observed = <<"PENDING", "RUNNING", "STOPPED">>
    /\ Len(printed) = 2

\* C2: the calls of an invocation are a prefix of the source order up to
\* run_task, then describe_tasks calls only, then at most one log read as the
\* last call; run_task is issued only when the log group exists and the family
\* has a registered revision; the log read is issued only after STOPPED was
\* observed.
C2_Theorem ==
    /\ \A i \in 1..Len(calls) :
          IF i <= Len(Order) THEN calls[i] = Order[i]
          ELSE \/ calls[i] = "describe_tasks"
               \/ calls[i] = "read_log_stream" /\ i = Len(calls)
    /\ Count(calls, "run_task") > 0 =>
          /\ args.task_name \in logGroups
          /\ NextRevision(args.task_name) > 1
          /\ args.cluster \in clusters
    /\ Count(calls, "read_log_stream") > 0 =>
          /\ Count(calls, "run_task") = 1
          /\ Last(observed) = "STOPPED"

C2_Witness ==
    /\ pc = "done"
    /\ Len(calls) = Len(Order) + 3
    /\ Polls = 2

\* C3: when describe_tasks raises, run is left at once: the failed call is
\* the last call, every earlier describe_tasks had returned, each describe
\* follows exactly one progress line and none is printed after the failure,
\* and the log stream is not read.
C3_Theorem ==
    /\ error = "describe_tasks" =>
          /\ pc = "aborted"
          /\ Last(calls) = "describe_tasks"
          /\ Polls = Len(observed)
          /\ Len(printed) = Polls
          /\ Count(calls, "read_log_stream") = 0
          /\ readReq = NoRead
          /\ output = <<>>
    /\ pc = "aborted" <=> error # "none"

C3_Witness ==
    /\ error = "describe_tasks"
    /\ Polls = 3
    /\ Len(printed) = 3

\* C4: the identifier run derives from the ARN that run_task returned is the
\* instance id of the task.
C4_Claim ==
    (task_arn # <<>> /\ task_arn = task.taskArn) => task_uuid = task.id

\* C5: the log group ensured, the awslogs-group of the registered container
\* and the group read are the task name, and the stream read is the stream
\* the container of the task writes to, task_name/task_name/instance id.
C5_Claim ==
    pc = "done" =>
       /\ args.task_name \in logGroups
       /\ Latest(args.task_name).containerDefinitions[1]
             .logConfiguration.options["awslogs-group"] = args.task_name
       /\ readReq.log_group_name = args.task_name
       /\ readReq.log_group_name = task.logGroup
       /\ readReq.stream = Join(<<args.task_name, args.task_name, task.id>>, "/")
       /\ readReq.stream = task.logStream

\* what a call that returned leaves in the account
Exists(op) ==
    IF op = "ensure_vpc" THEN TheVpc.id \in vpcs
    ELSE IF op = "create_cluster" THEN args.cluster \in clusters
    ELSE IF op = "ensure_log_group" THEN args.task_name \in logGroups
    ELSE IF op = "ensure_exec_role" THEN args.execution_role \in roles
    ELSE IF op = "ensure_task_role" THEN args.task_role \in roles
    ELSE IF op = "register_task_definition"
         THEN NextRevision(args.task_name) > 1
    ELSE IF op = "ensure_security_group"
         THEN args.security_group \in securityGroups
    ELSE TRUE

\* C6: when a provisioning call raises, run is left at that call: the calls
\* made are the source order up to and including the failed call, nothing is
\* submitted, described or read, and what the earlier calls created is still
\* in the account.
C6_Theorem ==
    /\ error \in ProvisioningOps =>
          /\ pc = "aborted"
          /\ \E k \in 1..7 :
                /\ Order[k] = error
                /\ calls = SubSeq(Order, 1, k)
                /\ \A i \in 1..(k - 1) : Exists(Order[i])
          /\ task_arn = <<>>
          /\ runTaskReq = NoReq
          /\ readReq = NoRead
          /\ printed = <<>>
    /\ \A i \in 1..Len(calls) :
          (i < Len(calls) \/ error = "none") => Exists(calls[i])

C6_Witness ==
    /\ error = "ensure_security_group"
    /\ Len(calls) = 7
    /\ runs = 1

\* C7: an invocation submits at most one run_task, exactly one once it is
\* past the submission; the request names launch type FARGATE, the cluster
\* and family of the arguments and the assembled network configuration; a
\* failed submission ends run with no describe and no log read.
C7_Theorem ==
    /\ Count(calls, "run_task") <= 1
    /\ (pc \in {"while", "print", "describe_tasks", "read_logs", "done"}
          \/ error \in {"run_task", "describe_tasks", "read_log_stream"}) =>
          /\ Count(calls, "run_task") = 1
          /\ runTaskReq = [cluster |-> args.cluster,
                           taskDefinition |-> args.task_name,
                           launchType |-> "FARGATE",
                           networkConfiguration |->
                              [subnets |-> TheVpc.subnets,
                               securityGroups |->
                                  <<SecurityGroupId(args.security_group)>>,
                               assignPublicIp |-> "ENABLED"]]
    /\ error = "run_task" =>
          /\ pc = "aborted"
          /\ Last(calls) = "run_task"
          /\ Polls = 0
          /\ Count(calls, "read_log_stream") = 0
    /\ pc \in {"ensure_vpc", "create_cluster", "ensure_log_group",
               "ensure_exec_role", "ensure_task_role",
               "register_task_definition", "ensure_security_group",
               "run_task"} => Count(calls, "run_task") = 0

C7_Witness ==
    /\ error = "run_task"
    /\ runTaskReq.launchType = "FARGATE"
    /\ runs = 2

\* the wait loop is left only for the log read, with STOPPED in hand, or by
\* an exception
LoopExit ==
    (InLoop /\ ~InLoop') =>
        \/ pc' = "read_logs" /\ res.lastStatus = "STOPPED"
        \/ pc' = "aborted" /\ error' = "describe_tasks"

\* while the status in hand is not STOPPED the loop goes round
LoopOn ==
    (pc = "while" /\ res.lastStatus # "STOPPED") => pc' \in {"while", "print"}

\* C8: the wait loop is left only when STOPPED has been observed or a call
\* has raised; as long as the status in hand is not STOPPED the loop goes
\* round again and the log stream is not read; once the provider reports
\* STOPPED and no call fails, run reads the log stream and ends.
C8_Theorem ==
    /\ [][LoopExit /\ LoopOn]_vars
    /\ [](Count(calls, "read_log_stream") > 0 => Last(observed) = "STOPPED")
    /\ ((InLoop /\ task.lastStatus = "STOPPED" /\ task.taskArn = task_arn)
           ~> (pc = "done" \/ error # "none"))

C8_Witness ==
    /\ pc = "done"
    /\ Polls = MaxPolls
    /\ Last(observed) = "STOPPED"
    /\ Last(calls) = "read_log_stream"

\* C9: in an invocation after the first no provisioning call is bound to
\* fail: the step that returns without an error is enabled although the
\* resource exists; every invocation that gets to register_task_definition
\* and is answered adds one revision: after n of them the family has the
\* revisions 1..n, in order.
C9_Theorem ==
    /\ (runs > 1 /\ pc \in ProvisioningOps) =>
          ENABLED (RunStep /\ error' = "none")
    /\ Len(taskDefs) = registered
    /\ \A i \in 1..Len(taskDefs) :
          /\ taskDefs[i].family = args.task_name
          /\ taskDefs[i].revision = i
    /\ \A i, j \in 1..Len(taskDefs) :
          i < j => taskDefs[i].revision < taskDefs[j].revision

C9_Witness ==
    /\ runs = 2
    /\ registered = 2
    /\ pc = "run_task"
    /\ Len(taskDefs) = 2

\* the statuses of a sequence of progress lines
PrintedStatuses == [i \in 1..Len(printed) |-> printed[i][2]]

\* C10: the number of progress lines equals the number of describe_tasks
\* calls, plus one between a line and its describe; the statuses printed are
\* the statuses observed that are not STOPPED, in order (all of them once the
\* loop is left); STOPPED is never printed; when run_task returns STOPPED
\* there is no line and no describe before the log read.
C10_Theorem ==
    /\ Len(printed) = Polls + (IF pc = "describe_tasks" THEN 1 ELSE 0)
    /\ LET seen == SelectSeq(observed, NotStopped) IN
          /\ Len(printed) <= Len(seen)
          /\ PrintedStatuses = SubSeq(seen, 1, Len(printed))
          /\ LoopLeft => PrintedStatuses = seen
    /\ \A i \in 1..Len(printed) : printed[i][2] # "STOPPED"
    /\ (LoopLeft /\ observed[1] = "STOPPED") =>
          /\ printed = <<>>
          /\ Polls = 0

C10_Witness ==
    /\ pc = "read_logs"
    /\ observed = <<"STOPPED">>
    /\ printed = <<>>
    /\ Polls = 0

====
